---- MODULE Spec2Model ----
(***************************************************************************)
(* A model of utils.py of gpt-embeddings: the tokenizer adapter            *)
(* (num_tokens), the balanced splitter (halved_by_delimiter), truncation   *)
(* (truncated_string), the recursive chunker                               *)
(* (split_strings_from_subsection), the section parser                     *)
(* (split_into_sections) and the QA parser (split_into_qa_pairs).          *)
(*                                                                         *)
(* A Python str is a sequence of one-character strings; "" is << >>.       *)
(***************************************************************************)
EXTENDS Integers, Sequences, FiniteSets, TLC

VARIABLES
    pc,             \* position of the running call
    titles, text, max_tokens, max_recursion, result,   \* split_strings_from_subsection
    string, delimiter, halves,                         \* halved_by_delimiter
    lines, pos, res, tmp, active, match_tok,           \* split_into_sections
    sections, si, li, qa_res, qa_tmp, questions, ans   \* split_into_qa_pairs

vars == <<pc, titles, text, max_tokens, max_recursion, result,
          string, delimiter, halves,
          lines, pos, res, tmp, active, match_tok,
          sections, si, li, qa_res, qa_tmp, questions, ans>>

chunkVars == <<titles, text, max_tokens, max_recursion, result>>
halveVars == <<string, delimiter, halves>>
sectionVars == <<lines, pos, res, tmp, active, match_tok>>
qaVars == <<sections, si, li, qa_res, qa_tmp, questions, ans>>

(***************************************************************************)
(* Bounds of the model.                                                    *)
(***************************************************************************)
MaxLen == 5          \* most characters of a subsection, titles and body together
MaxTokens == 4       \* largest max_tokens
MaxRecursion == 2    \* largest max_recursion
MaxLines == 5        \* longest input file, in lines
MaxSections == 2     \* most sections handed to split_into_qa_pairs
MaxQaLines == 3      \* most lines of one such section

(***************************************************************************)
(* Generic helpers.                                                        *)
(***************************************************************************)
Min(S) == CHOOSE m \in S : \A n \in S : m <= n

Abs(n) == IF n < 0 THEN -n ELSE n

StringsUpTo(alphabet, n) == UNION {[1..k -> alphabet] : k \in 0..n}

IsPrefix(p, s) == Len(p) <= Len(s) /\ SubSeq(s, 1, Len(p)) = p

(***************************************************************************)
(* str.split(delimiter) and delimiter.join(parts).                         *)
(***************************************************************************)
FoundAt(s, d, i) == i + Len(d) - 1 <= Len(s) /\ SubSeq(s, i, i + Len(d) - 1) = d

\* str.find(d) from position i on, counted from 1; 0 when d is not found
RECURSIVE Find(_, _, _)
Find(s, d, i) ==
    IF i + Len(d) - 1 > Len(s) THEN 0
    ELSE IF FoundAt(s, d, i) THEN i
    ELSE Find(s, d, i + 1)

RECURSIVE Split(_, _)
Split(s, d) ==
    LET i == Find(s, d, 1)
    IN  IF i = 0
        THEN <<s>>
        ELSE <<SubSeq(s, 1, i - 1)>> \o Split(SubSeq(s, i + Len(d), Len(s)), d)

RECURSIVE Join(_, _)
Join(parts, d) ==
    IF parts = << >> THEN << >>
    ELSE IF Len(parts) = 1 THEN parts[1]
    ELSE parts[1] \o d \o Join(Tail(parts), d)

(***************************************************************************)
(* The tokenizer (tiktoken's encoding for GPT_MODEL): byte-pair encoding.  *)
(* A token is a string; a text starts as one token per character and the   *)
(* merges of the table are applied in the order of their rank, each        *)
(* wherever its pair is adjacent, leftmost first.  The table is a small    *)
(* one of the encoding's shape: the paragraph break, a word with its       *)
(* leading space, a run of letters, a full stop with the line end, and a   *)
(* longer word.  A token count is therefore neither the character count    *)
(* nor additive over concatenation.                                        *)
(***************************************************************************)
Chars == {"a", "\n", ".", " "}

Merges ==
    << << <<"\n">>, <<"\n">> >>,
       << <<" ">>, <<"a">> >>,
       << <<"a">>, <<"a">> >>,
       << <<".">>, <<"\n">> >>,
       << <<" ", "a">>, <<"a">> >> >>

PairAt(toks, k, i) == toks[i] = Merges[k][1] /\ toks[i + 1] = Merges[k][2]

\* one merge of the table applied wherever its pair is adjacent, leftmost first
RECURSIVE ApplyMerge(_, _)
ApplyMerge(toks, k) ==
    IF Len(toks) < 2 THEN toks
    ELSE IF PairAt(toks, k, 1)
    THEN <<toks[1] \o toks[2]>> \o ApplyMerge(SubSeq(toks, 3, Len(toks)), k)
    ELSE <<toks[1]>> \o ApplyMerge(Tail(toks), k)

\* the merges from rank k on, each applied in its turn
RECURSIVE BytePairMerge(_, _)
BytePairMerge(toks, k) ==
    IF k > Len(Merges) THEN toks ELSE BytePairMerge(ApplyMerge(toks, k), k + 1)

encode(s) == BytePairMerge([i \in 1..Len(s) |-> <<s[i]>>], 1)

RECURSIVE decode(_)
decode(toks) == IF toks = << >> THEN << >> ELSE toks[1] \o decode(Tail(toks))

num_tokens(s) == Len(encode(s))

(***************************************************************************)
(* halved_by_delimiter.                                                    *)
(***************************************************************************)
\* a scan that goes on through a tie
StopsOnlyWhenWorse(diff, best_diff) == diff > best_diff

\* line 26: the scan stops when the difference is no better than the best
StopsImproving(diff, best_diff) == diff >= best_diff

\* lines 22-29: the value of i when the for loop ends, counted from 0
RECURSIVE ScanIndex(_, _, _, _, _)
ScanIndex(chunks, d, halfway, i, best_diff) ==
    LET left == Join(SubSeq(chunks, 1, i + 1), d)
        diff == Abs(halfway - num_tokens(left))
    IN  IF StopsImproving(diff, best_diff) \/ i = Len(chunks) - 1
        THEN i
        ELSE ScanIndex(chunks, d, halfway, i + 1, diff)

\* line 30
LeftOf(chunks, d, i) == Join(SubSeq(chunks, 1, i), d)

\* a right half that loses the part at the split index
RightOfSkipsPart(chunks, d, i) == Join(SubSeq(chunks, i + 2, Len(chunks)), d)

\* line 31
RightOf(chunks, d, i) == Join(SubSeq(chunks, i + 1, Len(chunks)), d)

halved_by_delimiter(s, d) ==
    LET chunks == Split(s, d)
    IN  IF Len(chunks) = 1 THEN <<s, << >> >>
        ELSE IF Len(chunks) = 2 THEN chunks
        ELSE LET total_tokens == num_tokens(s)
                 halfway == total_tokens \div 2
                 i == ScanIndex(chunks, d, halfway, 0, halfway)
             IN  <<LeftOf(chunks, d, i), RightOf(chunks, d, i)>>

(***************************************************************************)
(* truncated_string (the warning it prints is not state).                  *)
(***************************************************************************)
\* a slice one token too long
FirstTokensOneMore(encoded_string, n) ==
    SubSeq(encoded_string, 1, IF n + 1 < Len(encoded_string) THEN n + 1 ELSE Len(encoded_string))

\* line 44: encoded_string[:max_tokens]
FirstTokens(encoded_string, n) ==
    SubSeq(encoded_string, 1, IF n < Len(encoded_string) THEN n ELSE Len(encoded_string))

truncated_string(s, n) == decode(FirstTokens(encode(s), n))

(***************************************************************************)
(* split_strings_from_subsection.  Each returned string is carried in a    *)
(* record with the facts of its making: whether truncated_string made it,  *)
(* the piece of the body it was composed from, the delimiter that          *)
(* separated that piece from the next one, and the nesting depth and       *)
(* max_recursion of the call that returned it.                             *)
(***************************************************************************)
Delimiters == << <<"\n", "\n">>, <<"\n">>, <<".", " ">> >>

\* the body put before the titles
ComposeBodyFirst(ts, body) == Join(<<body>> \o ts, <<"\n", "\n">>)

\* line 61
Compose(ts, body) == Join(ts \o <<body>>, <<"\n", "\n">>)

\* line 64
Fits(n, limit) == n <= limit

\* a test that misses an empty right half
HalfEmptyLeftOnly(left, right) == left = << >>

\* a test that wants both halves empty
HalfEmptyBoth(left, right) == left = << >> /\ right = << >>

\* line 74
HalfEmpty(left, right) == left = << >> \/ right = << >>

\* a nested call handed the same max_recursion
NextRecursionSame(r) == r

\* line 86
NextRecursion(r) == r - 1

Chunk(s, trunc, body, depth, r) ==
    [str |-> s, truncated |-> trunc, piece |-> body, sep |-> << >>,
     depth |-> depth, max_recursion |-> r]

\* lines 68 and 91
Truncated(ts, body, limit, depth, r) ==
    <<Chunk(truncated_string(Compose(ts, body), limit), TRUE, body, depth, r)>>

\* line 88: the left half's strings, the last of them followed by the delimiter
SepLast(chs, d) == [k \in 1..Len(chs) |-> IF k = Len(chs) THEN [chs[k] EXCEPT !.sep = d] ELSE chs[k]]

RECURSIVE SplitRec(_, _, _, _, _)
RECURSIVE TryDelimiters(_, _, _, _, _, _)

\* lines 72-91: the delimiters from the k-th on
TryDelimiters(ts, body, limit, r, depth, k) ==
    IF k > Len(Delimiters)
    THEN Truncated(ts, body, limit, depth, r)
    ELSE LET h == halved_by_delimiter(body, Delimiters[k])
         IN  IF HalfEmpty(h[1], h[2])
             THEN TryDelimiters(ts, body, limit, r, depth, k + 1)
             ELSE SepLast(SplitRec(ts, h[1], limit, NextRecursion(r), depth + 1), Delimiters[k])
                  \o SplitRec(ts, h[2], limit, NextRecursion(r), depth + 1)

\* lines 60-91
SplitRec(ts, body, limit, r, depth) ==
    LET s == Compose(ts, body)
    IN  IF Fits(num_tokens(s), limit)
        THEN <<Chunk(s, FALSE, body, depth, r)>>
        ELSE IF r = 0
        THEN Truncated(ts, body, limit, depth, r)
        ELSE TryDelimiters(ts, body, limit, r, depth, 1)

split_strings_from_subsection(ts, body, limit, r) == SplitRec(ts, body, limit, r, 0)

(***************************************************************************)
(* Lines of a file and the str methods split_into_sections uses on them.   *)
(***************************************************************************)
Digits == <<"0", "1", "2", "3", "4", "5", "6", "7", "8", "9">>

IsDigit(c) == \E v \in 1..Len(Digits) : Digits[v] = c

DigitValue(c) == (CHOOSE v \in 1..Len(Digits) : Digits[v] = c) - 1

\* the em-space U+2003, one character
EmSpace == "u2003"

IsSpace(c) == c \in {" ", "\n", "\t", EmSpace}

\* str.strip()
RECURSIVE LStrip(_)
LStrip(s) == IF s # << >> /\ IsSpace(Head(s)) THEN LStrip(Tail(s)) ELSE s

RECURSIVE RStrip(_)
RStrip(s) ==
    IF s # << >> /\ IsSpace(s[Len(s)]) THEN RStrip(SubSeq(s, 1, Len(s) - 1)) ELSE s

strip(s) == RStrip(LStrip(s))

\* str.isnumeric()
isnumeric(s) == s # << >> /\ \A i \in 1..Len(s) : IsDigit(s[i])

\* int() of a string of digits
RECURSIVE DecimalValue(_)
DecimalValue(s) ==
    IF s = << >> THEN 0
    ELSE 10 * DecimalValue(SubSeq(s, 1, Len(s) - 1)) + DigitValue(s[Len(s)])

\* int(line), which ignores the white space around the digits
int(s) == DecimalValue(strip(s))

\* str() of a natural number
RECURSIVE str(_)
str(n) == IF n < 10 THEN <<Digits[n + 1]>> ELSE str(n \div 10) \o <<Digits[(n % 10) + 1]>>

(***************************************************************************)
(* split_into_sections, one step for each line of the file.  tmp starts    *)
(* as None, which line 99 treats as it treats the empty list, and is a     *)
(* list from the first marker on; it is << >> for both.                    *)
(***************************************************************************)
\* a test that takes any line of digits for a marker
IsAnyNumber(line, expected) == isnumeric(strip(line))

\* line 98
IsMarker(line, expected) == isnumeric(strip(line)) /\ int(line) = expected

\* lines 98-105
ReadMarker ==
    /\ pc = "lines"
    /\ pos <= Len(lines)
    /\ IsMarker(lines[pos], match_tok + 1)
    /\ res' = IF tmp # << >> THEN Append(res, <<str(match_tok), tmp>>) ELSE res
    /\ match_tok' = match_tok + 1
    /\ active' = TRUE
    /\ tmp' = << >>
    /\ pos' = pos + 1
    /\ UNCHANGED <<pc, lines, chunkVars, halveVars, qaVars>>

\* lines 107-108, the section open
ReadBodyLine ==
    /\ pc = "lines"
    /\ pos <= Len(lines)
    /\ ~IsMarker(lines[pos], match_tok + 1)
    /\ active
    /\ tmp' = Append(tmp, lines[pos])
    /\ pos' = pos + 1
    /\ UNCHANGED <<pc, lines, res, active, match_tok, chunkVars, halveVars, qaVars>>

\* line 107, no section open yet: the line is dropped
SkipLine ==
    /\ pc = "lines"
    /\ pos <= Len(lines)
    /\ ~IsMarker(lines[pos], match_tok + 1)
    /\ ~active
    /\ pos' = pos + 1
    /\ UNCHANGED <<pc, lines, res, tmp, active, match_tok, chunkVars, halveVars, qaVars>>

\* lines 110-112
ReturnSections ==
    /\ pc = "lines"
    /\ pos > Len(lines)
    /\ pc' = "done"
    /\ UNCHANGED <<sectionVars, chunkVars, halveVars, qaVars>>

(***************************************************************************)
(* parse_and_join_ans and split_into_qa_pairs, one step for each line of   *)
(* each section.  A unit holds the questions by value: the list a unit     *)
(* shares with the accumulator after line 148 is not appended to before    *)
(* line 138 replaces the accumulator, since ans is still non-empty then.   *)
(***************************************************************************)
\* line 124
Dropped == { <<"\n">>, <<"\t">>, <<EmSpace, "\n">> }

RECURSIVE parse_and_join_ans(_)
parse_and_join_ans(a) ==
    IF a = << >> THEN << >>
    ELSE (IF a[1] \in Dropped THEN << >> ELSE a[1]) \o parse_and_join_ans(Tail(a))

QMark == <<"<", "Q", ">">>

\* line 134
startswith(line, prefix) == IsPrefix(prefix, line)

\* line 141: line[4:]
AfterMarker(line) == SubSeq(line, 5, Len(line))

CurrentText == sections[si][2]

\* lines 131-132
StartSection ==
    /\ pc = "section"
    /\ si <= Len(sections)
    /\ qa_tmp' = << >>
    /\ li' = 1
    /\ pc' = "line"
    /\ UNCHANGED <<sections, si, qa_res, questions, ans, chunkVars, halveVars, sectionVars>>

\* lines 134-142
QuestionLine ==
    /\ pc = "line"
    /\ li <= Len(CurrentText)
    /\ startswith(CurrentText[li], QMark)
    /\ IF Len(ans) > 0
       THEN /\ qa_tmp' = Append(qa_tmp, <<questions, parse_and_join_ans(ans)>>)
            /\ questions' = <<AfterMarker(CurrentText[li])>>
            /\ ans' = << >>
       ELSE /\ qa_tmp' = qa_tmp
            /\ questions' = Append(questions, AfterMarker(CurrentText[li]))
            /\ ans' = ans
    /\ li' = li + 1
    /\ UNCHANGED <<pc, sections, si, qa_res, chunkVars, halveVars, sectionVars>>

\* line 144
AnswerLine ==
    /\ pc = "line"
    /\ li <= Len(CurrentText)
    /\ ~startswith(CurrentText[li], QMark)
    /\ ans' = Append(ans, CurrentText[li])
    /\ li' = li + 1
    /\ UNCHANGED <<pc, sections, si, qa_res, qa_tmp, questions, chunkVars, halveVars, sectionVars>>

\* lines 146-150
EndSection ==
    /\ pc = "line"
    /\ li > Len(CurrentText)
    /\ LET flushed == IF Len(ans) > 0
                      THEN Append(qa_tmp, <<questions, parse_and_join_ans(ans)>>)
                      ELSE qa_tmp
       IN  /\ qa_tmp' = flushed
           /\ qa_res' = Append(qa_res, <<sections[si][1], flushed>>)
    /\ si' = si + 1
    /\ pc' = "section"
    /\ UNCHANGED <<sections, li, questions, ans, chunkVars, halveVars, sectionVars>>

\* line 152
ReturnQaPairs ==
    /\ pc = "section"
    /\ si > Len(sections)
    /\ pc' = "done"
    /\ UNCHANGED <<qaVars, chunkVars, halveVars, sectionVars>>

(***************************************************************************)
(* The chunker's specification: a subsection and the two limits are        *)
(* chosen, then split_strings_from_subsection is applied.                  *)
(***************************************************************************)
TitleLists == { << >>, << <<"a">> >>, << <<"a">>, <<".">> >> }

ChunkIdle ==
    titles = << >> /\ text = << >> /\ max_tokens = 0 /\ max_recursion = 0 /\ result = << >>

HalveIdle == string = << >> /\ delimiter = << >> /\ halves = << >>

SectionIdle ==
    /\ lines = << >> /\ pos = 0 /\ res = << >> /\ tmp = << >>
    /\ active = FALSE /\ match_tok = 0

QaIdle ==
    /\ sections = << >> /\ si = 0 /\ li = 0 /\ qa_res = << >> /\ qa_tmp = << >>
    /\ questions = << >> /\ ans = << >>

Init ==
    /\ pc = "call"
    /\ titles \in TitleLists
    /\ text \in StringsUpTo(Chars, MaxLen - Len(Join(titles, << >>)))
    /\ max_tokens \in 1..MaxTokens
    /\ max_recursion \in 0..MaxRecursion
    /\ result = << >>
    /\ HalveIdle /\ SectionIdle /\ QaIdle

SplitStrings ==
    /\ pc = "call"
    /\ result' = split_strings_from_subsection(titles, text, max_tokens, max_recursion)
    /\ pc' = "done"
    /\ UNCHANGED <<titles, text, max_tokens, max_recursion, halveVars, sectionVars, qaVars>>

Next == SplitStrings

Spec == Init /\ [][Next]_vars

(***************************************************************************)
(* The splitter's specification: a string and one of the delimiters are    *)
(* chosen, then halved_by_delimiter is applied.                            *)
(***************************************************************************)
InitHalve ==
    /\ pc = "call"
    /\ string \in StringsUpTo(Chars, MaxLen)
    /\ delimiter \in {Delimiters[d] : d \in 1..Len(Delimiters)}
    /\ halves = << >>
    /\ ChunkIdle /\ SectionIdle /\ QaIdle

Halve ==
    /\ pc = "call"
    /\ halves' = halved_by_delimiter(string, delimiter)
    /\ pc' = "done"
    /\ UNCHANGED <<string, delimiter, chunkVars, sectionVars, qaVars>>

NextHalve == Halve

SpecHalve == InitHalve /\ [][NextHalve]_vars

(***************************************************************************)
(* The section parser's specification: the lines of a file are chosen,     *)
(* then read one by one.                                                   *)
(***************************************************************************)
FileLines ==
    { <<"1", "\n">>, <<"2", "\n">>, <<"3", "\n">>, <<" ", "2", "\n">>, <<"a", "\n">> }

InitSections ==
    /\ pc = "lines"
    /\ lines \in StringsUpTo(FileLines, MaxLines)
    /\ pos = 1
    /\ res = << >> /\ tmp = << >> /\ active = FALSE /\ match_tok = 0
    /\ ChunkIdle /\ HalveIdle /\ QaIdle

NextSections == ReadMarker \/ ReadBodyLine \/ SkipLine \/ ReturnSections

SpecSections == InitSections /\ [][NextSections]_vars

(***************************************************************************)
(* The QA parser's specification: sections as split_into_sections returns  *)
(* them (ids counting up from 1, bodies not empty) are chosen, then read    *)
(* line by line.                                                           *)
(***************************************************************************)
QaLines ==
    { <<"<", "Q", ">", " ", "a", "\n">>, <<"<", "Q", ">", " ", ".", "\n">>,
      <<"a", "\n">>, <<EmSpace, "\n">> }

SectionTexts == StringsUpTo(QaLines, MaxQaLines) \ { << >> }

SectionLists ==
    UNION { {[i \in 1..n |-> <<str(i), t[i]>>] : t \in [1..n -> SectionTexts]} : n \in 1..MaxSections }

InitQa ==
    /\ pc = "section"
    /\ sections \in SectionLists
    /\ si = 1 /\ li = 0
    /\ qa_res = << >> /\ qa_tmp = << >> /\ questions = << >> /\ ans = << >>
    /\ ChunkIdle /\ HalveIdle /\ SectionIdle

NextQa == StartSection \/ QuestionLine \/ AnswerLine \/ EndSection \/ ReturnQaPairs

SpecQa == InitQa /\ [][NextQa]_vars

(***************************************************************************)
(* Properties of split_strings_from_subsection.                            *)
(***************************************************************************)
Done == pc = "done"

Chunks == 1..Len(result)

\* the titles and the separator that follows them, as Compose lays them out
TitlePrefix == IF titles = << >> THEN << >> ELSE Join(titles, <<"\n", "\n">>) \o <<"\n", "\n">>

\* a returned string with the title prefix cut off
BodyOf(s) == SubSeq(s, Len(TitlePrefix) + 1, Len(s))

IsPieceOf(p, body) ==
    \E i \in 1..(Len(body) + 1) : \E j \in (i - 1)..Len(body) : p = SubSeq(body, i, j)

OverBudget == num_tokens(Compose(titles, text)) > max_tokens

Contains(s, d) == \E i \in 1..Len(s) : FoundAt(s, d, i)

NoTruncation == \A k \in Chunks : ~result[k].truncated

RECURSIVE Rejoin(_)
Rejoin(chs) ==
    IF chs = << >> THEN << >>
    ELSE BodyOf(chs[1].str) \o chs[1].sep \o Rejoin(Tail(chs))

\* C5: without truncation, the body pieces of the returned strings,
\* rejoined in order with the delimiters they were split at, are the body.
ConcatenationCoverage ==
    (Done /\ NoTruncation) =>
        /\ Rejoin(result) = text
        /\ \A k \in Chunks :
              /\ result[k].str = TitlePrefix \o BodyOf(result[k].str)
              /\ result[k].sep = << >> <=> k = Len(result)
              /\ k < Len(result) => \E d \in 1..Len(Delimiters) : result[k].sep = Delimiters[d]

ConcatenationCoverageWitness ==
    /\ Done /\ NoTruncation
    /\ Len(result) >= 3
    /\ \A k \in Chunks : result[k].depth >= 1

\* C6 as stated: every returned string begins with all the titles, joined
\* by the two-newline separator, followed by a piece of the body.
SelfDescribing ==
    Done => \A k \in Chunks :
                /\ IsPrefix(TitlePrefix, result[k].str)
                /\ IsPieceOf(BodyOf(result[k].str), text)

\* C6 amended: a string not made by the truncation fallback is the titles,
\* joined by the two-newline separator, followed by a piece of the body; a
\* string made by the fallback is the first max_tokens tokens of such a
\* string.
SelfDescribingUnlessTruncated ==
    Done => \A k \in Chunks :
                IF result[k].truncated
                THEN \E i \in 1..(Len(text) + 1) : \E j \in (i - 1)..Len(text) :
                        result[k].str =
                            decode(FirstTokens(encode(TitlePrefix \o SubSeq(text, i, j)), max_tokens))
                ELSE /\ IsPrefix(TitlePrefix, result[k].str)
                     /\ IsPieceOf(BodyOf(result[k].str), text)

SelfDescribingWitness ==
    /\ Done
    /\ titles # << >>
    /\ Len(result) >= 2
    /\ \E k \in Chunks : ~result[k].truncated /\ BodyOf(result[k].str) # << >>
    /\ \E k \in Chunks : result[k].truncated

RECURSIVE Pow2(_)
Pow2(n) == IF n = 0 THEN 1 ELSE 2 * Pow2(n - 1)

\* C8: a call nested d deep received max_recursion - d; a call that
\* received 0 on an over-budget string returned the truncated string; so
\* no string comes from deeper than max_recursion and at most
\* 2^max_recursion strings are returned.
BoundedRecursion ==
    Done =>
        /\ \A k \in Chunks :
              /\ result[k].max_recursion = max_recursion - result[k].depth
              /\ result[k].depth <= max_recursion
              /\ (result[k].max_recursion = 0
                    /\ num_tokens(Compose(titles, result[k].piece)) > max_tokens)
                 => /\ result[k].truncated
                    /\ result[k].str = truncated_string(Compose(titles, result[k].piece), max_tokens)
        /\ Len(result) <= Pow2(max_recursion)

BoundedRecursionWitness ==
    /\ Done
    /\ max_recursion >= 1
    /\ Len(result) = Pow2(max_recursion)
    /\ \E k \in Chunks :
          result[k].depth = max_recursion /\ result[k].max_recursion = 0 /\ result[k].truncated

\* the call returned at its own level with the truncated string
TruncatedHere == Len(result) = 1 /\ result[1].truncated /\ result[1].depth = 0

\* some occurrence of a delimiter has text on both sides of it
CanCut(s) ==
    \E d \in 1..Len(Delimiters) : \E i \in 2..Len(s) :
        FoundAt(s, Delimiters[d], i) /\ i + Len(Delimiters[d]) - 1 < Len(s)

\* C10 as stated: an over-budget body with recursion left is truncated at
\* this level only when no delimiter occurrence cuts it in two non-empty
\* pieces.
TruncationLastResort ==
    (Done /\ OverBudget /\ max_recursion > 0) => (TruncatedHere <=> ~CanCut(text))

Usable(d) ==
    LET h == halved_by_delimiter(text, Delimiters[d]) IN h[1] # << >> /\ h[2] # << >>

RECURSIVE Pieces(_)
Pieces(chs) == IF chs = << >> THEN << >> ELSE chs[1].piece \o chs[1].sep \o Pieces(Tail(chs))

\* C10 amended: an over-budget body with recursion left is truncated at this
\* level exactly when halved_by_delimiter returns an empty half for each of
\* the three delimiters; otherwise the two halves of the first delimiter
\* with two non-empty halves are split further, left then right.
TruncationWhenNoHalving ==
    (Done /\ OverBudget /\ max_recursion > 0) =>
        LET usable == {d \in 1..Len(Delimiters) : Usable(d)}
        IN  IF usable = {}
            THEN TruncatedHere
            ELSE LET d == Min(usable)
                     h == halved_by_delimiter(text, Delimiters[d])
                 IN  /\ \A k \in Chunks : result[k].depth >= 1
                     /\ \E j \in 1..(Len(result) - 1) :
                           /\ Pieces(SubSeq(result, 1, j)) = h[1] \o Delimiters[d]
                           /\ Pieces(SubSeq(result, j + 1, Len(result))) = h[2]

TruncationWhenNoHalvingWitness ==
    /\ Done /\ OverBudget /\ max_recursion > 0
    /\ CanCut(text)
    /\ TruncatedHere

(***************************************************************************)
(* Properties of halved_by_delimiter.                                      *)
(***************************************************************************)
Parts == Split(string, delimiter)

Halfway == num_tokens(string) \div 2

\* the difference at index i, counted from 0: the prefix parts[0..i]
DiffAt(i) == Abs(Halfway - num_tokens(Join(SubSeq(Parts, 1, i + 1), delimiter)))

BestBefore(i) ==
    LET seen == {Halfway} \cup {DiffAt(j) : j \in 0..(i - 1)}
    IN  CHOOSE b \in seen : \A o \in seen : b <= o

\* s is the first index whose difference is no better than the best before it
FirstStop(s) ==
    /\ DiffAt(s) >= BestBefore(s)
    /\ \A j \in 0..(s - 1) : DiffAt(j) < BestBefore(j)

\* C9: with three or more parts, the halves are the parts before and from
\* the first index at which the difference to half the tokens is no better
\* than the best so far.
GreedyBalancedSplit ==
    (Done /\ Len(Parts) >= 3) =>
        \E s \in 0..(Len(Parts) - 1) :
            /\ FirstStop(s)
            /\ halves = <<Join(SubSeq(Parts, 1, s), delimiter),
                          Join(SubSeq(Parts, s + 1, Len(Parts)), delimiter)>>

\* a split after a prefix that improved, although a later index is nearer
\* to half the tokens than the one the scan stopped at
GreedyBalancedSplitWitness ==
    /\ Done /\ Len(Parts) >= 3
    /\ \E s \in 1..(Len(Parts) - 1) :
          /\ FirstStop(s)
          /\ halves[1] = Join(SubSeq(Parts, 1, s), delimiter)
          /\ \E i \in (s + 1)..(Len(Parts) - 2) : DiffAt(i) < DiffAt(s)

(***************************************************************************)
(* Properties of split_into_sections.                                      *)
(***************************************************************************)
\* the line that opens section j: the first line after the line that opens
\* section j - 1 whose digits are j; 0 when there is none
RECURSIVE MarkerPos(_)
MarkerPos(j) ==
    IF j = 0 THEN 0
    ELSE LET prev == MarkerPos(j - 1)
             found == {q \in (prev + 1)..Len(lines) :
                          isnumeric(strip(lines[q])) /\ int(lines[q]) = j}
         IN  IF (j > 1 /\ prev = 0) \/ found = {} THEN 0 ELSE Min(found)

NumMarkers == Cardinality({j \in 1..Len(lines) : MarkerPos(j) # 0})

\* the lines between the marker of section j and the next marker or the end
BodyLines(j) ==
    SubSeq(lines, MarkerPos(j) + 1,
           IF MarkerPos(j + 1) = 0 THEN Len(lines) ELSE MarkerPos(j + 1) - 1)

SectionIds == [k \in 1..Len(res) |-> int(res[k][1])]

\* C3: when every marker 1..k is followed by at least one body line, the
\* result has k sections, one for each marker, the last one too.
EverySectionEmitted ==
    (Done /\ NumMarkers >= 1 /\ \A j \in 1..NumMarkers : BodyLines(j) # << >>) =>
        res = [j \in 1..NumMarkers |-> <<str(j), BodyLines(j)>>]

\* C4 as stated: the ids of the returned sections are 1, 2, ..., k.
ContiguousSectionIds ==
    Done => \A k \in 1..Len(res) : SectionIds[k] = k

\* C4 amended: the ids of the returned sections are strictly increasing,
\* an id below the last returned one is missing only when its section has
\* no body line, and each returned section holds the lines between its
\* marker and the next, a line of digits that are not the expected number
\* among them.
IncreasingSectionIds ==
    Done =>
        /\ \A k \in 1..(Len(res) - 1) : SectionIds[k] < SectionIds[k + 1]
        /\ \A k \in 1..Len(res) :
              /\ SectionIds[k] \in 1..NumMarkers
              /\ res[k] = <<str(SectionIds[k]), BodyLines(SectionIds[k])>>
              /\ res[k][2] # << >>
        /\ Len(res) > 0 =>
              \A j \in 1..SectionIds[Len(res)] :
                  (\A k \in 1..Len(res) : SectionIds[k] # j) => BodyLines(j) = << >>

IncreasingSectionIdsWitness ==
    /\ Done
    /\ Len(res) >= 1
    /\ SectionIds[1] = 2
    /\ \E q \in 1..Len(res[1][2]) : isnumeric(strip(res[1][2][q]))

(***************************************************************************)
(* Properties of split_into_qa_pairs.                                      *)
(***************************************************************************)
\* a unit made of lines of the text only
BuiltFrom(unit, body) ==
    /\ \A q \in 1..Len(unit[1]) :
          \E l \in 1..Len(body) :
              startswith(body[l], QMark) /\ unit[1][q] = AfterMarker(body[l])
    /\ \E a \in 1..Len(body) : \E b \in a..Len(body) :
          /\ \A l \in a..b : ~startswith(body[l], QMark)
          /\ unit[2] = parse_and_join_ans(SubSeq(body, a, b))

\* C2: the accumulators are empty at the first line of each section, and
\* each unit listed under a section is built from lines of that section.
UnitsOfOneSection ==
    /\ (pc = "line" /\ li = 1) => (questions = << >> /\ ans = << >>)
    /\ \A i \in 1..Len(qa_res) :
          \A u \in 1..Len(qa_res[i][2]) : BuiltFrom(qa_res[i][2][u], sections[i][2])

====
